---------------------------- MODULE Spec2Model ----------------------------
(***************************************************************************)
(* The student record service of src/main.go: the map `students` guarded   *)
(* by the reader/writer lock `studentsMu`, the six HTTP handlers, and the  *)
(* summary generation that is chosen once, at startup, by `useOllama`.     *)
(* Each handler is a sequence of steps of one client goroutine; a step is  *)
(* atomic where the code touches no shared state between its statements.   *)
(***************************************************************************)
EXTENDS Integers, Sequences, FiniteSets, TLC

\* ------------------------------------------------------------------ bounds
\* Concurrent requests in flight (net/http serves each on its own goroutine).
NumProcs == 2

\* Completed requests kept per client where a scenario records them.
HistLen == 2

Procs == 1..NumProcs

\* --------------------------------------------------------- program constants
MinID == 10000000
MaxID == 99999999

StatusOK == 200
StatusCreated == 201
StatusNoContent == 204
StatusBadRequest == 400
StatusNotFound == 404
StatusConflict == 409
StatusInternalServerError == 500
MsgInvalidID == "Invalid student ID: must be an 8-digit integer"
MsgInvalidData == "Invalid student data"
MsgExists == "Student ID already exists"
MsgNotFound == "Student not found"
MsgMismatch == "Student ID in body does not match URL"
MsgDecode == "json: cannot decode request body"
MsgEmptySummary == "Generated summary is empty"
MsgGenFailed == "Failed to generate summary: "
ErrPost == "error making POST request to Ollama"
ErrRead == "error reading response body"
ErrStatus == "Ollama API returned non-200 status code"
ErrDecode == "error decoding Ollama response"
ErrFormat == "unexpected response format from Ollama"
ErrEmpty == "Ollama returned an empty summary"

\* ------------------------------------------------------------ pure functions
\* A validateID without the upper bound.
validateID_NoUpperBound(id) == id >= MinID

\* validateID, main.go:86-88.
validateID(id) == id >= MinID /\ id <= MaxID

\* The decimal digits strconv.Atoi and fmt's %d read and write.
Digits == <<"0", "1", "2", "3", "4", "5", "6", "7", "8", "9">>

DigitVal(c) == (CHOOSE i \in 1..10 : Digits[i] = c) - 1

IsDigit(c) == \E i \in 1..10 : Digits[i] = c

RECURSIVE ParseDigits(_, _)
\* The value of a sequence of digit characters, most significant first.
ParseDigits(s, acc) ==
    IF s = << >> THEN acc
    ELSE ParseDigits(Tail(s), acc * 10 + DigitVal(Head(s)))

\* strconv.Atoi on a path segment given as its characters: an optional sign,
\* then one or more decimal digits; anything else is an error.
Atoi(s) ==
    LET signed == s # << >> /\ Head(s) \in {"+", "-"}
        body == IF signed THEN Tail(s) ELSE s
    IN  IF body = << >> \/ \E i \in 1..Len(body) : ~IsDigit(body[i])
        THEN [err |-> TRUE, val |-> 0]
        ELSE [err |-> FALSE,
              val |-> IF signed /\ Head(s) = "-"
                      THEN 0 - ParseDigits(body, 0)
                      ELSE ParseDigits(body, 0)]

RECURSIVE Itoa(_)
\* fmt's %d of an integer: its decimal digits, with a minus sign when negative.
Itoa(n) ==
    IF n < 0 THEN "-" \o Itoa(0 - n)
    ELSE IF n < 10 THEN Digits[n + 1]
    ELSE Itoa(n \div 10) \o Digits[(n % 10) + 1]

\* A generateFallbackSummary with the name and email arguments swapped.
generateFallbackSummary_Swapped(student) ==
    [summary |-> "Student " \o student.email \o " is " \o Itoa(student.age)
                 \o " years old and can be contacted at " \o student.name \o ".",
     err |-> FALSE]

\* generateFallbackSummary, main.go:317-320.
generateFallbackSummary(student) ==
    [summary |-> "Student " \o student.name \o " is " \o Itoa(student.age)
                 \o " years old and can be contacted at " \o student.email \o ".",
     err |-> FALSE]

\* The field checks without the one on the age.
InvalidData_AgeUnchecked(student) ==
    student.name = "" \/ student.email = ""

\* The field checks shared by createStudent and updateStudent.
InvalidData(student) ==
    student.name = "" \/ student.age <= 0 \/ student.email = ""


\* ------------------------------------------------------------------- inputs
\* Student{}: the zero value a handler's local `student` starts from, and
\* what a map read of an absent key yields.
ZeroStudent == [id |-> 0, name |-> "", age |-> 0, email |-> ""]

Rec(i, n, a, e) == [id |-> i, name |-> n, age |-> a, email |-> e]

\* Records that pass every check of createStudent and updateStudent.
ValidStudents ==
    { Rec(MinID, "Ada", 30, "ada@x.com"),
      Rec(MinID, "Bob", 7, "bob@y.org"),
      Rec(MaxID, "Ada", 30, "ada@x.com") }

\* Records that fail one check each: the id just below and just above the
\* range, an empty name, a zero and a negative age, an empty email.
InvalidStudents ==
    { Rec(MinID - 1, "Ada", 30, "ada@x.com"),
      Rec(MaxID + 1, "Ada", 30, "ada@x.com"),
      Rec(MinID, "", 30, "ada@x.com"),
      Rec(MinID, "Ada", 0, "ada@x.com"),
      Rec(MaxID, "Ada", -1, "ada@x.com"),
      Rec(MaxID, "Ada", 30, "") }

\* A request body: JSON that decodes into a Student, or JSON that does not.
Bodies ==
    { [ok |-> TRUE, student |-> s] : s \in ValidStudents \cup InvalidStudents }
    \cup { [ok |-> FALSE, student |-> ZeroStudent] }

\* The {id} segment of the URL, as its characters.
Paths ==
    { <<"1", "0", "0", "0", "0", "0", "0", "0">>,
      <<"9", "9", "9", "9", "9", "9", "9", "9">>,
      <<"9", "9", "9", "9", "9", "9", "9">>,
      <<"1", "0", "0", "0", "0", "0", "0", "0", "0">>,
      <<"1", "2", "a", "b">> }

\* A value of a decoded JSON object: a string, or something that is not one.
JStr(s) == [type |-> "string", str |-> s]

JNum == [type |-> "number", str |-> ""]

\* What the availability probe of GET /api/tags can end in.
ProbeReply(badurl, neterr, status) ==
    [badurl |-> badurl, neterr |-> neterr, status |-> status]

ProbeReplies(up) ==
    { ProbeReply(TRUE, FALSE, 0), ProbeReply(FALSE, TRUE, 0) }
    \cup (IF up THEN { ProbeReply(FALSE, FALSE, st) : st \in {200, 503} } ELSE {})

\* What POST /api/generate can end in: a transport error (the 60 s deadline
\* included), a body that cannot be read, or a status with a body that is
\* either not JSON or a JSON object.
GenReply(neterr, readerr, status, json, obj) ==
    [neterr |-> neterr, readerr |-> readerr, status |-> status,
     json |-> json, obj |-> obj]

GoodObj == [f \in {"response"} |-> JStr("Ada, 30: ada@x.com")]

GenReplies(up) ==
    { GenReply(TRUE, FALSE, 0, FALSE, << >>) }
    \cup (IF up
          THEN { GenReply(FALSE, TRUE, 200, FALSE, << >>),
                 GenReply(FALSE, FALSE, 503, TRUE, GoodObj),
                 GenReply(FALSE, FALSE, 200, FALSE, << >>),
                 GenReply(FALSE, FALSE, 200, TRUE, [f \in {"summary"} |-> JStr("Ada")]),
                 GenReply(FALSE, FALSE, 200, TRUE, [f \in {"response"} |-> JNum]),
                 GenReply(FALSE, FALSE, 200, TRUE, [f \in {"response"} |-> JStr("")]),
                 GenReply(FALSE, FALSE, 200, TRUE, GoodObj) }
          ELSE {})

\* checkOllamaAvailability, main.go:65-83.
checkOllamaAvailability(reply) ==
    IF reply.badurl THEN FALSE
    ELSE IF reply.neterr THEN FALSE
    ELSE reply.status = StatusOK

\* A generateSummaryWithOllama without the empty-summary check of
\* main.go:309-311.
generateSummaryWithOllama_NoEmptyCheck(student, reply) ==
    IF reply.neterr THEN [summary |-> "", err |-> TRUE, cause |-> ErrPost]
    ELSE IF reply.readerr THEN [summary |-> "", err |-> TRUE, cause |-> ErrRead]
    ELSE IF reply.status # StatusOK
         THEN [summary |-> "", err |-> TRUE, cause |-> ErrStatus]
    ELSE IF ~reply.json THEN [summary |-> "", err |-> TRUE, cause |-> ErrDecode]
    ELSE IF ~("response" \in DOMAIN reply.obj
              /\ reply.obj["response"].type = "string")
         THEN [summary |-> "", err |-> TRUE, cause |-> ErrFormat]
    ELSE [summary |-> reply.obj["response"].str, err |-> FALSE, cause |-> ""]

\* generateSummaryWithOllama, main.go:256-315, on the reply of the remote call.
generateSummaryWithOllama(student, reply) ==
    IF reply.neterr THEN [summary |-> "", err |-> TRUE, cause |-> ErrPost]
    ELSE IF reply.readerr THEN [summary |-> "", err |-> TRUE, cause |-> ErrRead]
    ELSE IF reply.status # StatusOK
         THEN [summary |-> "", err |-> TRUE, cause |-> ErrStatus]
    ELSE IF ~reply.json THEN [summary |-> "", err |-> TRUE, cause |-> ErrDecode]
    ELSE IF ~("response" \in DOMAIN reply.obj
              /\ reply.obj["response"].type = "string")
         THEN [summary |-> "", err |-> TRUE, cause |-> ErrFormat]
    ELSE IF reply.obj["response"].str = ""
         THEN [summary |-> "", err |-> TRUE, cause |-> ErrEmpty]
    ELSE [summary |-> reply.obj["response"].str, err |-> FALSE, cause |-> ""]

\* -------------------------------------------------------------------- state
VARIABLES
    students,    \* the map students: a function from the ids stored to records
    studentsMu,  \* the RWMutex: its writer (0 when none) and its readers
    useOllama,   \* set once by main from the probe
    started,     \* main has reached ListenAndServe
    reachable,   \* the environment: whether the remote service answers at all
    pc,          \* pc[p]: where request goroutine p stands
    req,         \* req[p]: the handler's validated inputs (op, id, student)
    local,       \* local[p]: what the handler read under the lock
    resp,        \* resp[p]: the response of p's last request, once written
    logging,     \* whether completed requests are kept in hist
    hist         \* hist[p]: the requests p completed, with their responses

vars == <<students, studentsMu, useOllama, started, reachable,
          pc, req, local, resp, logging, hist>>

NoWriter == 0

NoReq == [op |-> "none", id |-> 0, student |-> ZeroStudent]

NoLocal == [student |-> ZeroStudent, ok |-> FALSE, studentList |-> << >>]

\* A response: the status line and the body, one field per kind of body.
Response(status, msg, student, list, summary) ==
    [status |-> status, msg |-> msg, student |-> student,
     list |-> list, summary |-> summary]

NoResp == Response(0, "", ZeroStudent, << >>, "")

\* http.Error(w, msg, status)
HttpError(status, msg) == Response(status, msg, ZeroStudent, << >>, "")

InitWith(log) ==
    /\ students = << >>
    /\ studentsMu = [writer |-> NoWriter, readers |-> {}]
    /\ useOllama = FALSE
    /\ started = FALSE
    /\ reachable \in BOOLEAN
    /\ pc = [p \in Procs |-> "idle"]
    /\ req = [p \in Procs |-> NoReq]
    /\ local = [p \in Procs |-> NoLocal]
    /\ resp = [p \in Procs |-> NoResp]
    /\ logging = log
    /\ hist = [p \in Procs |-> << >>]

Init == InitWith(FALSE)

\* ----------------------------------------------------------------- the lock
\* A Lock that waits for nobody.
CanLock_WaitsForNobody == TRUE

\* studentsMu.Lock() returns only when no goroutine holds the lock.
CanLock == studentsMu.writer = NoWriter /\ studentsMu.readers = {}

\* An RLock that does not wait for the writer.
CanRLock_IgnoresWriter == TRUE

\* studentsMu.RLock() returns only when no writer holds the lock.
CanRLock == studentsMu.writer = NoWriter

Lock(p) == studentsMu' = [studentsMu EXCEPT !.writer = p]

Unlock(p) == studentsMu' = [studentsMu EXCEPT !.writer = NoWriter]

RLock(p) == studentsMu' = [studentsMu EXCEPT !.readers = @ \cup {p}]

RUnlock(p) == studentsMu' = [studentsMu EXCEPT !.readers = @ \ {p}]

\* ------------------------------------------------------------ handler steps
\* hist[p] with entry e added, the oldest entry dropped beyond HistLen.
Push(h, e) ==
    IF Len(h) < HistLen THEN Append(h, e) ELSE Append(Tail(h), e)

Entry(op, id, student, r) ==
    [op |-> op, id |-> id, student |-> student, before |-> students, resp |-> r]

\* The handler of p refuses its input with response r and returns.
Reject(p, r, op, id, student) ==
    /\ resp' = [resp EXCEPT ![p] = r]
    /\ hist' = IF logging
               THEN [hist EXCEPT ![p] = Push(@, Entry(op, id, student, r))]
               ELSE hist
    /\ UNCHANGED <<pc, req, local>>

\* The handler of p passed its checks and goes on to the lock.
Proceed(p, to, op, id, student) ==
    /\ pc' = [pc EXCEPT ![p] = to]
    /\ req' = [req EXCEPT ![p] = [op |-> op, id |-> id, student |-> student]]
    /\ resp' = [resp EXCEPT ![p] = NoResp]
    /\ hist' = IF logging
               THEN [hist EXCEPT ![p] = Push(@, Entry(op, id, student, NoResp))]
               ELSE hist
    /\ UNCHANGED local

\* The handler of p, past its checks, writes response r and returns.
Return(p, r) ==
    /\ resp' = [resp EXCEPT ![p] = r]
    /\ pc' = [pc EXCEPT ![p] = "idle"]
    /\ req' = [req EXCEPT ![p] = NoReq]
    /\ local' = [local EXCEPT ![p] = NoLocal]
    /\ hist' = IF logging
               THEN [hist EXCEPT ![p][Len(hist[p])].resp = r]
               ELSE hist

Goto(p, to) == pc' = [pc EXCEPT ![p] = to]

\* main, main.go:33-63: the probe decides useOllama, then requests are served.
Main ==
    /\ ~started
    /\ \E reply \in ProbeReplies(reachable) :
          useOllama' = checkOllamaAvailability(reply)
    /\ started' = TRUE
    /\ UNCHANGED <<students, studentsMu, reachable, pc, req, local, resp,
                   logging, hist>>

\* The remote service goes down or comes back.
RemoteFlips ==
    /\ reachable' = ~reachable
    /\ UNCHANGED <<students, studentsMu, useOllama, started, pc, req, local,
                   resp, logging, hist>>

\* createStudent, main.go:90-106: decode and validate the body.
CreateBegin(p, body) ==
    /\ started /\ pc[p] = "idle"
    /\ IF ~body.ok
       THEN Reject(p, HttpError(StatusBadRequest, MsgDecode),
                   "Create", 0, body.student)
       ELSE IF ~validateID(body.student.id)
       THEN Reject(p, HttpError(StatusBadRequest, MsgInvalidID),
                   "Create", body.student.id, body.student)
       ELSE IF InvalidData(body.student)
       THEN Reject(p, HttpError(StatusBadRequest, MsgInvalidData),
                   "Create", body.student.id, body.student)
       ELSE Proceed(p, "c_lock", "Create", body.student.id, body.student)
    /\ UNCHANGED <<students, studentsMu, useOllama, started, reachable, logging>>

\* createStudent, main.go:108.
CreateLock(p) ==
    /\ pc[p] = "c_lock" /\ CanLock
    /\ Lock(p) /\ Goto(p, "c_check")
    /\ UNCHANGED <<students, useOllama, started, reachable, req, local, resp,
                   logging, hist>>

\* A createStudent that returns early on a duplicate without the Unlock of
\* main.go:110.
CreateExists_NoUnlock(p) ==
    /\ pc[p] = "c_check" /\ req[p].id \in DOMAIN students
    /\ Return(p, HttpError(StatusConflict, MsgExists))
    /\ UNCHANGED <<students, studentsMu, useOllama, started, reachable, logging>>

\* createStudent, main.go:109-113: the id exists.
CreateExists(p) ==
    /\ pc[p] = "c_check" /\ req[p].id \in DOMAIN students
    /\ Unlock(p)
    /\ Return(p, HttpError(StatusConflict, MsgExists))
    /\ UNCHANGED <<students, useOllama, started, reachable, logging>>

\* A createStudent that goes on to the write whatever the check finds.
CreateAbsent_NoCheck(p) ==
    /\ pc[p] = "c_check"
    /\ Goto(p, "c_write")
    /\ UNCHANGED <<students, studentsMu, useOllama, started, reachable, req,
                   local, resp, logging, hist>>

\* createStudent, main.go:109: the id does not exist.
CreateAbsent(p) ==
    /\ pc[p] = "c_check" /\ req[p].id \notin DOMAIN students
    /\ Goto(p, "c_write")
    /\ UNCHANGED <<students, studentsMu, useOllama, started, reachable, req,
                   local, resp, logging, hist>>

\* students[k] = s
MapSet(m, k, s) == [x \in DOMAIN m \cup {k} |-> IF x = k THEN s ELSE m[x]]

\* delete(students, k)
MapDelete(m, k) == [x \in DOMAIN m \ {k} |-> m[x]]

\* createStudent, main.go:114.
CreateWrite(p) ==
    /\ pc[p] = "c_write"
    /\ students' = MapSet(students, req[p].student.id, req[p].student)
    /\ Goto(p, "c_unlock")
    /\ UNCHANGED <<studentsMu, useOllama, started, reachable, req, local, resp,
                   logging, hist>>

\* createStudent, main.go:115-119.
CreateUnlock(p) ==
    /\ pc[p] = "c_unlock"
    /\ Unlock(p)
    /\ Return(p, Response(StatusCreated, "", req[p].student, << >>, ""))
    /\ UNCHANGED <<students, useOllama, started, reachable, logging>>

\* Every order in which ranging over a map can visit its keys.
Orders(keys) ==
    { o \in [1..Cardinality(keys) -> keys] :
        \A i, j \in 1..Cardinality(keys) : i # j => o[i] # o[j] }

\* make([]Student, len(students)) in place of make([]Student, 0, len(students)):
\* the appended records follow as many zero records.
StudentList_ZeroFilled(o) ==
    [i \in 1..Len(o) |-> ZeroStudent] \o [i \in 1..Len(o) |-> students[o[i]]]

\* getAllStudents, main.go:124-127: the records appended in the order o.
StudentList(o) == [i \in 1..Len(o) |-> students[o[i]]]

\* getAllStudents, main.go:122-123: no input to check.
GetAllBegin(p) ==
    /\ started /\ pc[p] = "idle"
    /\ Proceed(p, "ga_rlock", "GetAll", 0, ZeroStudent)
    /\ UNCHANGED <<students, studentsMu, useOllama, started, reachable, logging>>

\* getAllStudents, main.go:123.
GetAllRLock(p) ==
    /\ pc[p] = "ga_rlock" /\ CanRLock
    /\ RLock(p) /\ Goto(p, "ga_read")
    /\ UNCHANGED <<students, useOllama, started, reachable, req, local, resp,
                   logging, hist>>

\* getAllStudents, main.go:124-127: copy the records, in the map's order.
GetAllRead(p) ==
    /\ pc[p] = "ga_read"
    /\ \E o \in Orders(DOMAIN students) :
          local' = [local EXCEPT ![p].studentList = StudentList(o)]
    /\ Goto(p, "ga_runlock")
    /\ UNCHANGED <<students, studentsMu, useOllama, started, reachable, req,
                   resp, logging, hist>>

\* getAllStudents, main.go:128-131.
GetAllRUnlock(p) ==
    /\ pc[p] = "ga_runlock"
    /\ RUnlock(p)
    /\ Return(p, Response(StatusOK, "", ZeroStudent, local[p].studentList, ""))
    /\ UNCHANGED <<students, useOllama, started, reachable, logging>>

\* getStudent, main.go:134-140: parse and validate the path id.
GetBegin(p, path) ==
    /\ started /\ pc[p] = "idle"
    /\ LET a == Atoi(path) IN
       IF a.err \/ ~validateID(a.val)
       THEN Reject(p, HttpError(StatusBadRequest, MsgInvalidID),
                   "Get", a.val, ZeroStudent)
       ELSE Proceed(p, "g_rlock", "Get", a.val, ZeroStudent)
    /\ UNCHANGED <<students, studentsMu, useOllama, started, reachable, logging>>

\* getStudent, main.go:142.
GetRLock(p) ==
    /\ pc[p] = "g_rlock" /\ CanRLock
    /\ RLock(p) /\ Goto(p, "g_read")
    /\ UNCHANGED <<students, useOllama, started, reachable, req, local, resp,
                   logging, hist>>

\* A read that reports the key found but loses the record.
MapGet_LosesRecord(m, k) == [student |-> ZeroStudent, ok |-> k \in DOMAIN m]

\* student, ok := students[id]
MapGet(m, k) ==
    IF k \in DOMAIN m THEN [student |-> m[k], ok |-> TRUE]
    ELSE [student |-> ZeroStudent, ok |-> FALSE]

\* getStudent, main.go:143.
GetRead(p) ==
    /\ pc[p] = "g_read"
    /\ local' = [local EXCEPT ![p].student = MapGet(students, req[p].id).student,
                             ![p].ok = MapGet(students, req[p].id).ok]
    /\ Goto(p, "g_runlock")
    /\ UNCHANGED <<students, studentsMu, useOllama, started, reachable, req,
                   resp, logging, hist>>

\* getStudent, main.go:144-152.
GetRUnlock(p) ==
    /\ pc[p] = "g_runlock"
    /\ RUnlock(p)
    /\ IF ~local[p].ok
       THEN Return(p, HttpError(StatusNotFound, MsgNotFound))
       ELSE Return(p, Response(StatusOK, "", local[p].student, << >>, ""))
    /\ UNCHANGED <<students, useOllama, started, reachable, logging>>

\* updateStudent, main.go:155-178: parse the path id, decode and validate.
UpdateBegin(p, path, body) ==
    /\ started /\ pc[p] = "idle"
    /\ LET a == Atoi(path) IN
       IF a.err \/ ~validateID(a.val)
       THEN Reject(p, HttpError(StatusBadRequest, MsgInvalidID),
                   "Update", a.val, ZeroStudent)
       ELSE IF ~body.ok
       THEN Reject(p, HttpError(StatusBadRequest, MsgDecode),
                   "Update", a.val, body.student)
       ELSE IF body.student.id # a.val
       THEN Reject(p, HttpError(StatusBadRequest, MsgMismatch),
                   "Update", a.val, body.student)
       ELSE IF InvalidData(body.student)
       THEN Reject(p, HttpError(StatusBadRequest, MsgInvalidData),
                   "Update", a.val, body.student)
       ELSE Proceed(p, "u_lock", "Update", a.val, body.student)
    /\ UNCHANGED <<students, studentsMu, useOllama, started, reachable, logging>>

\* updateStudent, main.go:180.
UpdateLock(p) ==
    /\ pc[p] = "u_lock" /\ CanLock
    /\ Lock(p) /\ Goto(p, "u_check")
    /\ UNCHANGED <<students, useOllama, started, reachable, req, local, resp,
                   logging, hist>>

\* updateStudent, main.go:181-185: no record at the id.
UpdateMissing(p) ==
    /\ pc[p] = "u_check" /\ req[p].id \notin DOMAIN students
    /\ Unlock(p)
    /\ Return(p, HttpError(StatusNotFound, MsgNotFound))
    /\ UNCHANGED <<students, useOllama, started, reachable, logging>>

\* updateStudent, main.go:181: a record is at the id.
UpdatePresent(p) ==
    /\ pc[p] = "u_check" /\ req[p].id \in DOMAIN students
    /\ Goto(p, "u_write")
    /\ UNCHANGED <<students, studentsMu, useOllama, started, reachable, req,
                   local, resp, logging, hist>>

\* updateStudent, main.go:187.
UpdateWrite(p) ==
    /\ pc[p] = "u_write"
    /\ students' = MapSet(students, req[p].id, req[p].student)
    /\ Goto(p, "u_unlock")
    /\ UNCHANGED <<studentsMu, useOllama, started, reachable, req, local, resp,
                   logging, hist>>

\* updateStudent, main.go:188-191.
UpdateUnlock(p) ==
    /\ pc[p] = "u_unlock"
    /\ Unlock(p)
    /\ Return(p, Response(StatusOK, "", req[p].student, << >>, ""))
    /\ UNCHANGED <<students, useOllama, started, reachable, logging>>

\* deleteStudent, main.go:194-200: parse and validate the path id.
DeleteBegin(p, path) ==
    /\ started /\ pc[p] = "idle"
    /\ LET a == Atoi(path) IN
       IF a.err \/ ~validateID(a.val)
       THEN Reject(p, HttpError(StatusBadRequest, MsgInvalidID),
                   "Delete", a.val, ZeroStudent)
       ELSE Proceed(p, "d_lock", "Delete", a.val, ZeroStudent)
    /\ UNCHANGED <<students, studentsMu, useOllama, started, reachable, logging>>

\* deleteStudent, main.go:202.
DeleteLock(p) ==
    /\ pc[p] = "d_lock" /\ CanLock
    /\ Lock(p) /\ Goto(p, "d_check")
    /\ UNCHANGED <<students, useOllama, started, reachable, req, local, resp,
                   logging, hist>>

\* deleteStudent, main.go:203-207: no record at the id.
DeleteMissing(p) ==
    /\ pc[p] = "d_check" /\ req[p].id \notin DOMAIN students
    /\ Unlock(p)
    /\ Return(p, HttpError(StatusNotFound, MsgNotFound))
    /\ UNCHANGED <<students, useOllama, started, reachable, logging>>

\* deleteStudent, main.go:203: a record is at the id.
DeletePresent(p) ==
    /\ pc[p] = "d_check" /\ req[p].id \in DOMAIN students
    /\ Goto(p, "d_write")
    /\ UNCHANGED <<students, studentsMu, useOllama, started, reachable, req,
                   local, resp, logging, hist>>

\* deleteStudent, main.go:209.
DeleteWrite(p) ==
    /\ pc[p] = "d_write"
    /\ students' = MapDelete(students, req[p].id)
    /\ Goto(p, "d_unlock")
    /\ UNCHANGED <<studentsMu, useOllama, started, reachable, req, local, resp,
                   logging, hist>>

\* deleteStudent, main.go:210-212.
DeleteUnlock(p) ==
    /\ pc[p] = "d_unlock"
    /\ Unlock(p)
    /\ Return(p, Response(StatusNoContent, "", ZeroStudent, << >>, ""))
    /\ UNCHANGED <<students, useOllama, started, reachable, logging>>

\* getStudentSummary, main.go:214-220: parse and validate the path id.
SummaryBegin(p, path) ==
    /\ started /\ pc[p] = "idle"
    /\ LET a == Atoi(path) IN
       IF a.err \/ ~validateID(a.val)
       THEN Reject(p, HttpError(StatusBadRequest, MsgInvalidID),
                   "Summary", a.val, ZeroStudent)
       ELSE Proceed(p, "s_rlock", "Summary", a.val, ZeroStudent)
    /\ UNCHANGED <<students, studentsMu, useOllama, started, reachable, logging>>

\* getStudentSummary, main.go:222.
SummaryRLock(p) ==
    /\ pc[p] = "s_rlock" /\ CanRLock
    /\ RLock(p) /\ Goto(p, "s_read")
    /\ UNCHANGED <<students, useOllama, started, reachable, req, local, resp,
                   logging, hist>>

\* getStudentSummary, main.go:223.
SummaryRead(p) ==
    /\ pc[p] = "s_read"
    /\ local' = [local EXCEPT ![p].student = MapGet(students, req[p].id).student,
                             ![p].ok = MapGet(students, req[p].id).ok]
    /\ Goto(p, "s_runlock")
    /\ UNCHANGED <<students, studentsMu, useOllama, started, reachable, req,
                   resp, logging, hist>>

\* getStudentSummary, main.go:239-253: the response for a generation result.
SummaryResponse(gen) ==
    IF gen.err
    THEN HttpError(StatusInternalServerError, MsgGenFailed \o gen.cause)
    ELSE IF gen.summary = ""
    THEN HttpError(StatusInternalServerError, MsgEmptySummary)
    ELSE Response(StatusOK, "", ZeroStudent, << >>, gen.summary)

\* The error field of generateFallbackSummary's result, for SummaryResponse.
Fallback(student) ==
    [summary |-> generateFallbackSummary(student).summary,
     err |-> generateFallbackSummary(student).err, cause |-> ""]

\* getStudentSummary, main.go:224-237 and, without Ollama, 239-253.
SummaryRUnlock(p) ==
    /\ pc[p] = "s_runlock"
    /\ RUnlock(p)
    /\ IF ~local[p].ok
       THEN Return(p, HttpError(StatusNotFound, MsgNotFound))
       ELSE IF useOllama
       THEN /\ Goto(p, "s_remote")
            /\ UNCHANGED <<req, local, resp, hist>>
       ELSE Return(p, SummaryResponse(Fallback(local[p].student)))
    /\ UNCHANGED <<students, useOllama, started, reachable, logging>>

\* getStudentSummary, main.go:234 and 239-253: the remote call ends.
SummaryRemote(p, reply) ==
    /\ pc[p] = "s_remote"
    /\ Return(p, SummaryResponse(generateSummaryWithOllama(local[p].student, reply)))
    /\ UNCHANGED <<students, studentsMu, useOllama, started, reachable, logging>>

createStudent(p) ==
    \/ \E body \in Bodies : CreateBegin(p, body)
    \/ CreateLock(p) \/ CreateExists(p) \/ CreateAbsent(p)
    \/ CreateWrite(p) \/ CreateUnlock(p)

getAllStudents(p) ==
    GetAllBegin(p) \/ GetAllRLock(p) \/ GetAllRead(p) \/ GetAllRUnlock(p)

getStudent(p) ==
    \/ \E path \in Paths : GetBegin(p, path)
    \/ GetRLock(p) \/ GetRead(p) \/ GetRUnlock(p)

updateStudent(p) ==
    \/ \E path \in Paths, body \in Bodies : UpdateBegin(p, path, body)
    \/ UpdateLock(p) \/ UpdateMissing(p) \/ UpdatePresent(p)
    \/ UpdateWrite(p) \/ UpdateUnlock(p)

deleteStudent(p) ==
    \/ \E path \in Paths : DeleteBegin(p, path)
    \/ DeleteLock(p) \/ DeleteMissing(p) \/ DeletePresent(p)
    \/ DeleteWrite(p) \/ DeleteUnlock(p)

getStudentSummary(p) ==
    \/ \E path \in Paths : SummaryBegin(p, path)
    \/ SummaryRLock(p) \/ SummaryRead(p) \/ SummaryRUnlock(p)
    \/ \E reply \in GenReplies(reachable) : SummaryRemote(p, reply)

Next ==
    \/ Main
    \/ RemoteFlips
    \/ \E p \in Procs :
          \/ createStudent(p) \/ getAllStudents(p) \/ getStudent(p)
          \/ updateStudent(p) \/ deleteStudent(p) \/ getStudentSummary(p)

Spec == Init /\ [][Next]_vars


\* ----------------------------------------------------------------- fairness
\* A handler that can take a step that waits for nothing takes it.
Running(p) ==
    \/ CreateExists(p) \/ CreateAbsent(p) \/ CreateWrite(p) \/ CreateUnlock(p)
    \/ GetAllRead(p) \/ GetAllRUnlock(p)
    \/ GetRead(p) \/ GetRUnlock(p)
    \/ UpdateMissing(p) \/ UpdatePresent(p) \/ UpdateWrite(p) \/ UpdateUnlock(p)
    \/ DeleteMissing(p) \/ DeletePresent(p) \/ DeleteWrite(p) \/ DeleteUnlock(p)
    \/ SummaryRead(p) \/ SummaryRUnlock(p)

\* studentsMu.Lock() and studentsMu.RLock(): sync.RWMutex lets no waiter
\* starve (a blocked Lock holds back new readers, and Unlock admits the
\* readers that waited before the next writer).
Locking(p) == CreateLock(p) \/ UpdateLock(p) \/ DeleteLock(p)

RLocking(p) == GetAllRLock(p) \/ GetRLock(p) \/ SummaryRLock(p)

\* client.Do under the 60 s context deadline returns: with a response or
\* with an error.
RemoteEnds(p) == \E reply \in GenReplies(reachable) : SummaryRemote(p, reply)

Fairness ==
    \A p \in Procs :
        /\ WF_vars(Running(p))
        /\ SF_vars(Locking(p))
        /\ SF_vars(RLocking(p))
        /\ WF_vars(RemoteEnds(p))

SpecLive == Init /\ [][Next]_vars /\ Fairness

\* ---------------------------------------------------------------- scenarios
\* N concurrent callers, one Create each, pairwise distinct ids, on an empty
\* store; then one GetAll each, only once every Create has returned.
StudentOf(p) ==
    Rec(MinID + p, IF p % 2 = 1 THEN "Ada" ELSE "Bob", 20 + p, "ada@x.com")

Body(s) == [ok |-> TRUE, student |-> s]

\* The entries of hist[p] whose response has been written.
Completed(p) == { i \in 1..Len(hist[p]) : hist[p][i].resp # NoResp }

CreatedOwn(p) ==
    \E i \in Completed(p) : hist[p][i].op = "Create"

DistinctNext ==
    \/ Main
    \/ \E p \in Procs :
          \/ hist[p] = << >> /\ CreateBegin(p, Body(StudentOf(p)))
          \/ CreateLock(p) \/ CreateAbsent(p) \/ CreateWrite(p) \/ CreateUnlock(p)
          \/ /\ \A q \in Procs : CreatedOwn(q)
             /\ Len(hist[p]) = 1
             /\ GetAllBegin(p)
          \/ GetAllRLock(p) \/ GetAllRead(p) \/ GetAllRUnlock(p)

SpecDistinct == InitWith(TRUE) /\ [][DistinctNext]_vars

\* Concurrent Creates of one id that is absent from the store, each caller
\* with a record of its own; a caller whose Create has returned may go on to
\* read or update that id while other Creates are still in flight.
SameID == MinID + 1

SameStudent(p) == Rec(SameID, "Ada", 20 + p, "ada@x.com")

UpdatedStudent == Rec(SameID, "Bob", 7, "bob@y.org")

SamePath == <<"1", "0", "0", "0", "0", "0", "0", "1">>

SameNext ==
    \/ Main
    \/ \E p \in Procs :
          \/ hist[p] = << >> /\ CreateBegin(p, Body(SameStudent(p)))
          \/ CreateLock(p) \/ CreateExists(p) \/ CreateAbsent(p)
          \/ CreateWrite(p) \/ CreateUnlock(p)
          \/ /\ CreatedOwn(p) /\ Len(hist[p]) < HistLen
             /\ \E q \in Procs : req[q].op = "Create"
             /\ \/ UpdateBegin(p, SamePath, Body(UpdatedStudent))
                \/ GetBegin(p, SamePath)
          \/ UpdateLock(p) \/ UpdatePresent(p)
          \/ UpdateWrite(p) \/ UpdateUnlock(p)
          \/ GetRLock(p) \/ GetRead(p) \/ GetRUnlock(p)

SpecSame == InitWith(TRUE) /\ [][SameNext]_vars

\* One client, one request at a time, valid requests only.
Client == CHOOSE p \in Procs : \A q \in Procs : p <= q

PathOf(id) ==
    CHOOSE path \in Paths : ~Atoi(path).err /\ Atoi(path).val = id

SeqNext ==
    \/ Main
    \/ \E s \in ValidStudents :
          \/ CreateBegin(Client, Body(s))
          \/ UpdateBegin(Client, PathOf(s.id), Body(s))
          \/ GetBegin(Client, PathOf(s.id))
          \/ DeleteBegin(Client, PathOf(s.id))
    \/ CreateLock(Client) \/ CreateExists(Client) \/ CreateAbsent(Client)
    \/ CreateWrite(Client) \/ CreateUnlock(Client)
    \/ UpdateLock(Client) \/ UpdateMissing(Client) \/ UpdatePresent(Client)
    \/ UpdateWrite(Client) \/ UpdateUnlock(Client)
    \/ GetRLock(Client) \/ GetRead(Client) \/ GetRUnlock(Client)
    \/ DeleteLock(Client) \/ DeleteMissing(Client) \/ DeletePresent(Client)
    \/ DeleteWrite(Client) \/ DeleteUnlock(Client)

SpecSeq == InitWith(TRUE) /\ [][SeqNext]_vars

\* One client, one request at a time, every input.
OneNext ==
    \/ Main
    \/ RemoteFlips
    \/ createStudent(Client) \/ getAllStudents(Client) \/ getStudent(Client)
    \/ updateStudent(Client) \/ deleteStudent(Client)
    \/ getStudentSummary(Client)

SpecOne == Init /\ [][OneNext]_vars


\* ------------------------------------------------------------------- claims
InWrite(p) ==
    pc[p] \in {"c_check", "c_write", "c_unlock", "u_check", "u_write",
               "u_unlock", "d_check", "d_write", "d_unlock"}

InRead(p) ==
    pc[p] \in {"ga_read", "ga_runlock", "g_read", "g_runlock", "s_read",
               "s_runlock"}

\* C1: at most one request is inside a mutating critical section, and while
\* one is, no request is inside a read section; in particular no read falls
\* between a mutation's existence check and its write.
C1_MutualExclusion ==
    \A p, q \in Procs :
        (p # q /\ InWrite(p)) => (~InWrite(q) /\ ~InRead(q))

\* A Create stands between its check and its write while a reader and
\* nobody else waits for the lock.
C1_Witness ==
    \E p, q \in Procs :
        pc[p] = "c_write" /\ pc[q] \in {"g_rlock", "ga_rlock", "s_rlock"}

\* C2: N concurrent Creates of pairwise distinct ids on an empty store all
\* succeed, and a GetAll issued after all of them returned lists exactly
\* the N records created.
C2_DistinctCreates ==
    \A p \in Procs :
        /\ pc[p] = "c_check" => req[p].id \notin DOMAIN students
        /\ \A i \in Completed(p) :
              LET e == hist[p][i] IN
              /\ e.op = "Create" =>
                    (e.resp.status = 201 /\ e.resp.student = StudentOf(p))
              /\ e.op = "GetAll" =>
                    /\ e.resp.status = 200
                    /\ Len(e.resp.list) = NumProcs
                    /\ { e.resp.list[j] : j \in 1..Len(e.resp.list) }
                          = { StudentOf(q) : q \in Procs }

C2_Witness ==
    /\ \A p \in Procs : CreatedOwn(p)
    /\ \E p \in Procs : \E i \in Completed(p) : hist[p][i].op = "GetAll"

\* C3: every stored record is keyed by its own id, has an 8-digit id, a
\* non-empty name and email, and a positive age.
C3_StoredRecordsValid ==
    \A k \in DOMAIN students :
        /\ students[k].id = k
        /\ 10000000 <= k /\ k <= 99999999
        /\ students[k].name # ""
        /\ students[k].email # ""
        /\ students[k].age > 0

\* Two records are stored, one of them put there by an Update.
C3_Witness ==
    /\ Cardinality(DOMAIN students) = 2
    /\ \E p \in Procs : resp[p].status = 200 /\ resp[p].student.name = "Bob"
                        /\ students[resp[p].student.id] = resp[p].student

OutOfRange(id) == id < 10000000 \/ id > 99999999

BadRequest(p) ==
    /\ resp'[p].status = 400
    /\ pc'[p] = "idle"
    /\ students' = students

\* C4: every operation given an id outside [10000000, 99999999] answers 400
\* and leaves the store as it was.
C4_InvalidIdRejected ==
    [][\A p \in Procs :
        /\ \A body \in Bodies :
              (body.ok /\ OutOfRange(body.student.id) /\ CreateBegin(p, body))
                 => BadRequest(p)
        /\ \A path \in Paths :
              (/\ ~Atoi(path).err /\ OutOfRange(Atoi(path).val)
               /\ \/ GetBegin(p, path) \/ DeleteBegin(p, path)
                  \/ SummaryBegin(p, path)
                  \/ \E body \in Bodies : UpdateBegin(p, path, body))
                 => BadRequest(p)]_vars

\* A request was refused for its id while the store held a record.
C4_Witness ==
    /\ students # << >>
    /\ \E p \in Procs : resp[p] = HttpError(400, MsgInvalidID)

\* C5: a Create that finds its id present answers 409 and changes no record.
C5_DuplicateCreate ==
    [][\A p \in Procs :
        (/\ req[p].op = "Create" /\ pc[p] = "c_check"
         /\ req[p].id \in DOMAIN students
         /\ pc'[p] # pc[p])
           => (resp'[p] = HttpError(409, MsgExists) /\ students' = students)]_vars

\* A Create was refused as a duplicate and the record it collided with,
\* which differs from the one it carried, is still there.
C5_Witness ==
    \E p \in Procs :
        /\ resp[p] = HttpError(409, MsgExists)
        /\ \E k \in DOMAIN students : students[k].name = "Bob"

IsValidStudent(s) ==
    ~OutOfRange(s.id) /\ s.name # "" /\ s.email # "" /\ s.age > 0

\* C6: a Create of a valid record whose id is absent succeeds, and a Get of
\* that id that follows it returns the record created.
C6_CreateThenGet ==
    LET h == hist[Client] IN
    \A i \in Completed(Client) :
        (/\ h[i].op = "Create" /\ IsValidStudent(h[i].student)
         /\ h[i].student.id \notin DOMAIN h[i].before)
           => /\ h[i].resp.status = 201
              /\ h[i].resp.student = h[i].student
              /\ (i + 1 \in Completed(Client) /\ h[i + 1].op = "Get"
                  /\ h[i + 1].id = h[i].student.id)
                    => (h[i + 1].resp.status = 200
                        /\ h[i + 1].resp.student = h[i].student)

C6_Witness ==
    LET h == hist[Client] IN
    /\ Completed(Client) = {1, 2}
    /\ h[1].op = "Create" /\ h[1].resp.status = 201
    /\ h[2].op = "Get" /\ h[2].id = h[1].id /\ h[2].resp.status = 200

\* The sentence the fallback is to produce for a record.
Template(s) ==
    "Student " \o s.name \o " is " \o ToString(s.age)
    \o " years old and can be contacted at " \o s.email \o "."

\* Generate, for the record read by p, returns in this step.
GenerateReturns(p) ==
    /\ local[p].ok
    /\ pc[p] = "s_remote" \/ (pc[p] = "s_runlock" /\ ~useOllama)
    /\ pc'[p] = "idle"

\* C7 as stated: whenever the remote service is unreachable, Generate
\* returns the template and no error.
C7_Original ==
    [][\A p \in Procs :
        (GenerateReturns(p) /\ ~reachable)
           => resp'[p] = Response(200, "", ZeroStudent, << >>,
                                  Template(local[p].student))]_vars

\* C7 as amended: whenever the startup probe left useOllama false, Generate
\* returns the template and no error.
C7_FallbackWhenProbeFailed ==
    [][\A p \in Procs :
        (GenerateReturns(p) /\ ~useOllama)
           => resp'[p] = Response(200, "", ZeroStudent, << >>,
                                  Template(local[p].student))]_vars

C7_Witness ==
    /\ ~useOllama
    /\ \E p \in Procs :
          resp[p].summary
             = "Student Ada is 30 years old and can be contacted at ada@x.com."

\* The replies of the remote call that are failures.
FailedReply(r) ==
    \/ r.neterr \/ r.readerr \/ r.status # 200 \/ ~r.json
    \/ "response" \notin DOMAIN r.obj
    \/ r.obj["response"].type # "string"
    \/ r.obj["response"].str = ""

GenerationFailed ==
    { HttpError(500, MsgGenFailed \o c) :
        c \in {ErrPost, ErrRead, ErrStatus, ErrDecode, ErrFormat, ErrEmpty} }

\* C8: with useOllama true, a failed remote call makes the request fail
\* with GenerationFailed, never with the template; and useOllama keeps the
\* value the probe gave it.
C8_RemoteFailureIsError ==
    [][/\ started => useOllama' = useOllama
       /\ \A p \in Procs : \A r \in GenReplies(TRUE) :
             (useOllama /\ FailedReply(r) /\ SummaryRemote(p, r))
                => resp'[p] \in GenerationFailed]_vars

C8_Witness ==
    /\ useOllama
    /\ \E p \in Procs : resp[p] = HttpError(500, MsgGenFailed \o ErrEmpty)

\* Every Create of SameID has returned, each was issued while the id was
\* absent from the store, and nothing is in flight.
Quiescent ==
    \A p \in Procs :
        /\ pc[p] = "idle" /\ CreatedOwn(p)
        /\ \A i \in Completed(p) :
              hist[p][i].op = "Create" => SameID \notin DOMAIN hist[p][i].before

CreateStatus(p) ==
    hist[p][CHOOSE i \in Completed(p) : hist[p][i].op = "Create"].resp.status

Winners == { p \in Procs : CreateStatus(p) = 201 }

OneWinner ==
    /\ Cardinality(Winners) = 1
    /\ \A p \in Procs \ Winners :
          \E i \in Completed(p) :
             hist[p][i].op = "Create" /\ hist[p][i].resp = HttpError(409, MsgExists)
    /\ \A p \in Winners :
          SameID \in DOMAIN students /\ students[SameID] = SameStudent(p)

\* C10 as stated: of concurrent Creates of one absent id, with no Delete of
\* it, exactly one succeeds, the others answer 409, and the record stored
\* afterwards is the winner's.
C10_Original == Quiescent => OneWinner

NoUpdate ==
    \A p \in Procs : \A i \in 1..Len(hist[p]) : hist[p][i].op # "Update"

\* C10 as amended: the same, provided no Update of that id runs
\* concurrently either.
C10_OneCreateWins == (Quiescent /\ NoUpdate) => OneWinner

C10_Witness ==
    /\ Quiescent /\ NoUpdate
    /\ \E p \in Procs : \E i \in Completed(p) : hist[p][i].op = "Get"


Outcomes == {200, 201, 204, 400, 404, 409, 500}

\* C9: under fair scheduling every request that has started completes, with
\* a success or an error response.
C9_EveryRequestCompletes ==
    \A p \in Procs :
        (pc[p] # "idle") ~> (pc[p] = "idle" /\ resp[p].status \in Outcomes)

\* A Create waits for the lock while a Summary that read its record under
\* the lock waits for the remote call.
C9_Witness ==
    \E p, q \in Procs :
        pc[p] = "s_remote" /\ pc[q] \in {"c_lock", "u_lock", "d_lock"}

=============================================================================
